---------------------------- MODULE Spec2Model ----------------------------
(***************************************************************************)
(* Model of the update scheduler of flowercare-exporter                    *)
(* (internal/updater/updater.go): the Updater's sensor store (dataMap),    *)
(* its retry/refresh queue, the update loop started by Start, the callers  *)
(* of AddSensor, GetData and UpdateAll, the backoff step of retryItem, the *)
(* store's lock (dataLock) and the cancellation of the loop's context.     *)
(*                                                                         *)
(* Time is counted in seconds.  A time.Duration is a signed integer; the   *)
(* model keeps a signed width of DurationBits bits so that the conversion  *)
(* of an out-of-range float64 product in retryItem can be reached.         *)
(***************************************************************************)
EXTENDS Integers, Sequences, FiniteSets, TLC

(***************************************************************************)
(* Bounds of the model.                                                    *)
(***************************************************************************)
\* Number of periods of the updater's ticker that the clock may run.
MaxTicks == 4
\* The same, when a single sensor is registered.
MaxTicksSolo == 10
\* Width in bits of a modelled time.Duration (int64 in the program).
DurationBits == 13
\* The failed attempts of a sensor since its last scheduleUpdate are counted
\* up to this number.
ChainCap == 3
\* Number of periods of the ticker that the clock may run while the collector
\* calls GetData.
MaxTicksScrape == 3
\* Number of periods of the ticker kept between the oldest time that is told
\* apart and the present, when the clock runs without end.
MaxTicksLive == 2

(***************************************************************************)
(* Program constants.                                                      *)
(***************************************************************************)
\* updaterTickDuration = 10 * time.Second
updaterTickDuration == 10
\* Parse: retry time needs to be at least thirty seconds
MinRetryFloor == 30
\* Parse's default of --stale-duration: 5 * time.Minute
DefaultStale == 300

MaxDurationValue == 2 ^ (DurationBits - 1) - 1
MinDurationValue == -(2 ^ (DurationBits - 1))

\* MAC addresses of the sensors that callers register.
Addrs == {"A", "B"}
\* An address that no caller ever registers.
AllAddrs == Addrs \cup {"AA:BB"}
\* Sensor values an update attempt can read (miflora.Sensors).
SensorValues == {"dry"}
\* The same, with a second value.
ScrapeValues == SensorValues \cup {"wet"}

(***************************************************************************)
(* config.RetryConfig.  Factor is a float64; the model writes it as the    *)
(* fraction FactorNum / FactorDen.                                         *)
(***************************************************************************)
RetryConfig(min, max, num, den) ==
    [MinDuration |-> min, MaxDuration |-> max, FactorNum |-> num, FactorDen |-> den]

\* Parse's defaults: 30 * time.Second, 30 * time.Minute, 2.
DefaultRetry == RetryConfig(30, 1800, 2, 1)

\* A factor so large that MinDuration * factor lies outside the Duration range.
HugeFactor == 2 ^ DurationBits

\* Command lines given to Parse (the --retry-* flags).
FlagSets ==
    { DefaultRetry,
      RetryConfig(30, 30, 1, 1),
      RetryConfig(30, 60, 3, 2),
      RetryConfig(30, 60, HugeFactor, 1),
      RetryConfig(20, 60, 2, 1),
      RetryConfig(30, 20, 2, 1),
      RetryConfig(30, 60, 1, 2) }

\* A Parse without its check of the retry factor.
ParseAcceptsAnyFactor(c) ==
    /\ ~(c.MinDuration < MinRetryFloor)
    /\ ~(c.MaxDuration < c.MinDuration)

\* Parse: the three checks of the retry configuration; TRUE when Parse
\* returns no error for it.
ParseAccepts(c) ==
    /\ ~(c.MinDuration < MinRetryFloor)
    /\ ~(c.MaxDuration < c.MinDuration)
    /\ ~(c.FactorNum < c.FactorDen)

(***************************************************************************)
(* State.                                                                  *)
(***************************************************************************)
VARIABLES
    retryConfig,  \* Updater.retryConfig (before New: the Retry field of Parse's result)
    dataMap,      \* Updater.dataMap: address -> [Info, Data]; Data is <<>> (nil) or <<d>>
    queue,        \* Updater.queue: the set of queueItems of the map
    clock,        \* the wall clock (time.Now())
    tickerC,      \* the ticker's channel (capacity 1): <<>> or <<timestamp>>
    pc,           \* position of the update loop: "select", "reading" (in ReadData),
                  \*   "store" (ReadData returned data: in Lock() or holding
                  \*   dataLock), "retry" (ReadData returned an error), "panic"
                  \*   or "exited" (the goroutine has returned); before the loop
                  \*   exists, the position of main: "parse" (calls Parse),
                  \*   "fatal" (log.Fatalf has ended the process), "parsed"
    inFlight,     \* the update attempts begun and not finished:
                  \*   [next |-> queueItem, now |-> timestamp of the drain tick]
    data,         \* updateSensor's local data: <<>> or <<d>> once ReadData returned it
    sensors,      \* UpdateAll: the sensors of getSensors still to be scheduled
    chain,        \* history: failed attempts of an address since its last scheduleUpdate
                  \*   (ChainCap stands for more)
    afterOk,      \* history, per address: <<>> while no attempt has succeeded, else
                  \*   <<[retry |-> LastRetry of the item of the latest successful
                  \*      attempt, failures |-> failed attempts since (0, 1, 2 = more)]>>
    rearmed,      \* history: addresses whose queue entry was written by retryItem
    idle,         \* history: the step just taken was a drain tick that found no item due
                  \*   (kept when some address is tracked)
    ctxDone,      \* the context of Start and ReadData has been cancelled
    wg,           \* the counter of the wait group given to Start
    dataLock,     \* Updater.dataLock: the number of holders of the read lock
    scrape,       \* a call of GetData by the collector: [pc, macAddress, ret, before],
                  \*   pc one of "idle" (no call; ret is what the last call returned),
                  \*   "called" (in RLock()), "rlocked", "copying" (Time copied to the
                  \*   result, Sensors not yet), "runlock"; before is history: the
                  \*   record's Data when RLock() returned; with the collector's
                  \*   StaleDuration and ch, the metrics collectSensor has sent
                  \*   since that call
    locks,        \* who holds the locks of the Updater, when the locked sections of
                  \*   its operations are followed step by step: [held |-> for each
                  \*   of Start's goroutine, the caller of UpdateAll and the caller
                  \*   of AddSensor the locks it holds, now |-> <<>> or <<the tick
                  \*   the loop has received and not yet looked up>>, in |-> the
                  \*   operation the caller of UpdateAll is in]
    reader,       \* the queuedReader and the callers of its ReadFunc closures:
                  \*   [pc |-> position of the loop of Run, shutdown |-> r.shutdown,
                  \*   cooldown |-> whether r.cooldownPeriod > 0, queryCh |-> the
                  \*   queries in r.queryCh (each named by its caller), q |-> <<>> or
                  \*   <<the query the loop has received>>, res |-> <<>> or <<what
                  \*   ReadData returned for it>>, callers |-> for each caller its
                  \*   position in the closure and what the last call returned]
    dropped       \* history, per address followed: <<>>, or <<[LastRetry |-> that
                  \*   of the re-armed entry, not yet due, that a scheduleUpdate
                  \*   replaced, failed |-> an attempt of the address has failed
                  \*   since]>>; <<>> again after the second such failure

vars == <<retryConfig, dataMap, queue, clock, tickerC, pc, inFlight, data, sensors,
          chain, afterOk, rearmed, idle, ctxDone, wg, dataLock, scrape, dropped, locks, reader>>

\* The variables of the collector's call and of the cancellation.
others == <<ctxDone, wg, dataLock, scrape, locks, reader>>

\* The same, with the history of the replaced entries.
rest == <<ctxDone, wg, dataLock, scrape, dropped, locks, reader>>

\* The addresses for which an attempt has succeeded.
succeeded == {s \in DOMAIN afterOk : afterOk[s] # <<>>}
\* The addresses whose latest finished attempt succeeded.
lastOk == {s \in succeeded : afterOk[s][1].failures = 0}

(***************************************************************************)
(* The sensor store.                                                       *)
(***************************************************************************)
\* An assignment of a new map that holds the one record.
MapSetAlone(m, k, v) == [x \in {k} |-> v]

\* A map assignment that keeps the record an address already has.
MapSetIfAbsent(m, k, v) ==
    [x \in (DOMAIN m) \cup {k} |-> IF x \in DOMAIN m THEN m[x] ELSE v]

\* u.dataMap[k] = v
MapSet(m, k, v) == [x \in (DOMAIN m) \cup {k} |-> IF x = k THEN v ELSE m[x]]

\* GetData without its check of d.Data == nil.
GetDataUnchecked(dm, macAddress) ==
    IF macAddress \notin DOMAIN dm
    THEN [err |-> "no sensor with MAC address registered", data |-> <<>>]
    ELSE [err |-> "", data |-> dm[macAddress].Data]

\* GetData: the (miflora.Data, error) pair it returns.
GetData(dm, macAddress) ==
    IF macAddress \notin DOMAIN dm
    THEN [err |-> "no sensor with MAC address registered", data |-> <<>>]
    ELSE IF dm[macAddress].Data = <<>>
         THEN [err |-> "no data available", data |-> <<>>]
         ELSE [err |-> "", data |-> dm[macAddress].Data]

\* A getSensors that returns the configured sensors instead of the records.
getSensorsConfigured(dm) == Addrs

\* getSensors: the Info of every record.
getSensors(dm) == {dm[a].Info : a \in DOMAIN dm}

\* A store write that reaches every record instead of the sensor's own.
StoreDataEverywhere(dm, macAddress, d) ==
    [x \in DOMAIN dm |-> [dm[x] EXCEPT !.Data = <<d>>]]

\* updateSensor, after a successful read: mapItem := u.dataMap[addr]; mapItem.Data = &data
StoreData(dm, macAddress, d) ==
    [dm EXCEPT ![macAddress] = [@ EXCEPT !.Data = <<d>>]]

(***************************************************************************)
(* The queue.                                                              *)
(***************************************************************************)
QueueItem(s, t, d) == [Sensor |-> s, Time |-> t, LastRetry |-> d]

\* An insertion that keeps the sensor's previous item (a list instead of a map).
QueueAppend(q, item) == q \cup {item}

\* An assignment that replaces the whole map by the one item.
QueueSetAlone(q, item) == {item}

\* u.queue[item.Sensor] = item
QueueSet(q, item) == {i \in q : i.Sensor # item.Sensor} \cup {item}

\* A pop that empties the map.
QueueClear(q, macAddress) == {}

\* A pop that leaves the item in the map.
QueueKeep(q, macAddress) == q

\* delete(u.queue, macAddress)
QueueDelete(q, macAddress) == {i \in q : i.Sensor # macAddress}

\* A getNextQueueItem that returns the earliest item whether or not it is due.
NextQueueItemsNotDue(q, now) ==
    {i \in q : \A j \in q : ~(j.Time < i.Time)}

\* A getNextQueueItem that returns any item that is due, without sorting.
NextQueueItemsAnyDue(q, now) ==
    {i \in q : ~(i.Time - now > 0)}

\* A getNextQueueItem that takes an item only when its Time is before now.
NextQueueItemsBefore(q, now) ==
    {i \in q : /\ \A j \in q : ~(j.Time < i.Time)
               /\ i.Time < now}

\* getNextQueueItem: the items that sort.Slice may leave at items[0] (an item
\* whose Time no other item's Time is before), kept only when due at now.
NextQueueItems(q, now) ==
    {i \in q : /\ \A j \in q : ~(j.Time < i.Time)
               /\ ~(i.Time - now > 0)}

(***************************************************************************)
(* retryItem's backoff step.                                               *)
(***************************************************************************)
\* time.Duration(x) for the float64 x = n / d: truncation when the value is
\* in range; out of range the result depends on the processor (the smallest
\* Duration on amd64, the largest Duration on arm64).
ToDuration(n, d) ==
    LET t == n \div d
    IN  IF t > MaxDurationValue
        THEN {MinDurationValue, MaxDurationValue}
        ELSE {t}

\* A backoff step without the floor: the previous delay is always multiplied.
RetryAfterNoFloor(lastRetry, c) ==
    {IF r > c.MaxDuration THEN c.MaxDuration ELSE r :
       r \in ToDuration(lastRetry * c.FactorNum, c.FactorDen)}

\* The values retryItem can compute for retryAfter.
RetryAfter(lastRetry, c) ==
    IF lastRetry < c.MinDuration
    THEN {c.MinDuration}
    ELSE {IF r > c.MaxDuration THEN c.MaxDuration ELSE r :
            r \in ToDuration(lastRetry * c.FactorNum, c.FactorDen)}

(***************************************************************************)
(* The queuedReader.                                                       *)
(***************************************************************************)
\* The goroutines that call a ReadFunc closure, named by the sensor of the
\* closure.
Callers == {"A", "B"}

\* newQueuedDataReader and Run up to the loop: queryCh is empty, shutdown is
\* false, the loop is at its select and no closure is being called.
newQueuedDataReader(cooldown) ==
    [pc |-> "select", shutdown |-> FALSE, cooldown |-> cooldown, queryCh |-> <<>>,
     q |-> <<>>, res |-> <<>>,
     callers |-> [c \in Callers |-> [pc |-> "idle", ret |-> <<>>]]]

(***************************************************************************)
(* The locks of the Updater.                                               *)
(***************************************************************************)
\* The goroutines that take them, apart from the callers of GetData.
Procs == {"Start", "UpdateAll", "AddSensor"}

\* No goroutine holds a lock.
NoLocks == [held |-> [p \in Procs |-> {}], now |-> <<>>, in |-> ""]

(***************************************************************************)
(* Initial state: New has returned and Start has created the ticker.  The  *)
(* history variables follow the addresses in kept.                         *)
(***************************************************************************)
InitFor(kept) ==
    /\ retryConfig \in {c \in FlagSets : ParseAccepts(c)}
    /\ dataMap = <<>>
    /\ queue = {}
    /\ clock = 0
    /\ tickerC = <<>>
    /\ pc = "select"
    /\ inFlight = {}
    /\ data = <<>>
    /\ sensors = {}
    /\ chain = [a \in kept |-> 0]
    /\ afterOk = [a \in kept |-> <<>>]
    /\ rearmed = {}
    /\ dropped = <<>>
    /\ locks = NoLocks
    /\ reader = newQueuedDataReader(FALSE)
    /\ idle = FALSE
    /\ ctxDone = FALSE
    /\ wg = 1
    /\ dataLock = 0
    /\ scrape = [pc |-> "idle", macAddress |-> "", ret |-> <<>>, before |-> <<>>,
                 ch |-> <<>>, StaleDuration |-> DefaultStale]

Init == InitFor(Addrs)

\* The addresses whose history is kept.
tracked == DOMAIN chain

(***************************************************************************)
(* dataLock (sync.RWMutex).                                                *)
(***************************************************************************)
\* A Lock() that does not wait for the holders of the read lock.
CanLockAlways(readers) == TRUE

\* Lock() returns once no reader holds the lock.
CanLock(readers) == readers = 0

\* An updateSensor that takes dataLock before it calls ReadData.
WriterAtLockAcrossRead == pc \in {"reading", "store"}

\* The update loop is in updateSensor's locked section: it waits in Lock() or
\* holds the write lock.  RLock() blocks meanwhile.
WriterAtLock == pc = "store"

(***************************************************************************)
(* Callers.                                                                *)
(***************************************************************************)
\* AddSensor
AddSensor(sensor) ==
    /\ CanLock(dataLock)
    /\ dataMap' = MapSet(dataMap, sensor, [Info |-> sensor, Data |-> <<>>])
    /\ idle' = FALSE
    /\ UNCHANGED <<retryConfig, queue, clock, tickerC, pc, inFlight, data, sensors,
                   chain, afterOk, rearmed>>
    /\ UNCHANGED rest

\* UpdateAll up to its loop: sensors := u.getSensors()
UpdateAll ==
    /\ sensors = {}
    /\ sensors' = getSensors(dataMap)
    /\ idle' = FALSE
    /\ UNCHANGED <<retryConfig, dataMap, queue, clock, tickerC, pc, inFlight, data,
                   chain, afterOk, rearmed>>
    /\ UNCHANGED rest

\* History: the re-armed entries of sensor s that are not yet due.
Pending(s) == {i \in queue : i.Sensor = s /\ i.LastRetry > 0 /\ i.Time > clock}

\* History: dropped after scheduleUpdate(s) has replaced the entry of s.
Replaced(s) ==
    [x \in DOMAIN dropped |->
       IF x = s /\ Pending(s) # {}
       THEN <<[LastRetry |-> (CHOOSE i \in Pending(s) : TRUE).LastRetry, failed |-> FALSE]>>
       ELSE dropped[x]]

\* History: dropped after an attempt of sensor s has failed.
Failed(s) ==
    [x \in DOMAIN dropped |->
       IF x = s /\ dropped[x] # <<>>
       THEN IF dropped[x][1].failed THEN <<>> ELSE <<[dropped[x][1] EXCEPT !.failed = TRUE]>>
       ELSE dropped[x]]

\* A scheduleUpdate that makes the entry due at once and keeps the LastRetry
\* of the entry it replaces.
scheduleUpdateKeepingDelay(s) ==
    /\ s \in sensors
    /\ queue' = QueueSet(queue,
                   QueueItem(s, clock,
                             IF Pending(s) = {} THEN 0
                             ELSE (CHOOSE i \in Pending(s) : TRUE).LastRetry))
    /\ sensors' = sensors \ {s}
    /\ chain' = [x \in tracked |-> IF x = s THEN 0 ELSE chain[x]]
    /\ rearmed' = rearmed \ {s}
    /\ dropped' = Replaced(s)
    /\ idle' = FALSE
    /\ UNCHANGED <<retryConfig, dataMap, clock, tickerC, pc, inFlight, data, afterOk>>
    /\ UNCHANGED others

\* One iteration of UpdateAll's loop: u.scheduleUpdate(s)
scheduleUpdate(s) ==
    /\ s \in sensors
    /\ queue' = QueueSet(queue, QueueItem(s, clock, 0))
    /\ sensors' = sensors \ {s}
    /\ chain' = [x \in tracked |-> IF x = s THEN 0 ELSE chain[x]]
    /\ rearmed' = rearmed \ {s}
    /\ dropped' = Replaced(s)
    /\ idle' = FALSE
    /\ UNCHANGED <<retryConfig, dataMap, clock, tickerC, pc, inFlight, data, afterOk>>
    /\ UNCHANGED others

(***************************************************************************)
(* The ticker and the update loop of Start.                                *)
(***************************************************************************)
\* One period of the ticker passes; the tick is dropped when the channel is full.
Tick(maxTicks) ==
    /\ clock < maxTicks * updaterTickDuration
    /\ clock' = clock + updaterTickDuration
    /\ tickerC' = IF tickerC = <<>> THEN <<clock'>> ELSE tickerC
    /\ idle' = FALSE
    /\ UNCHANGED <<retryConfig, dataMap, queue, pc, inFlight, data, sensors,
                   chain, afterOk, rearmed>>
    /\ UNCHANGED rest

\* A time one period of the ticker earlier; times older than the origin of
\* the clock are not told apart.
Earlier(t) == IF t < updaterTickDuration THEN 0 ELSE t - updaterTickDuration

\* The Time of queue item i one period of the ticker earlier.  Of the due
\* times older than the origin of the clock only the order is kept: an item
\* does not move below -10 s times the number of items that are due later.
EarlierInQueue(q, i) ==
    LET floor == -updaterTickDuration * Cardinality({j \in q : j.Time > i.Time})
        t == i.Time - updaterTickDuration
    IN  IF t < floor THEN floor ELSE t

\* One period of the ticker passes when the clock has run maxTicks periods:
\* the origin of the clock moves on by one period instead, so that every
\* time kept in the state becomes one period earlier, and the tick carries
\* the same reading of the clock as the tick before.  The timestamps the
\* loop still computes with (a waiting tick, the tick of a running attempt)
\* are never older than the origin.
TickOn(maxTicks) ==
    /\ clock = maxTicks * updaterTickDuration
    /\ \A a \in inFlight : a.now >= updaterTickDuration
    /\ tickerC # <<>> => tickerC[1] >= updaterTickDuration
    /\ tickerC' = IF tickerC = <<>> THEN <<clock>> ELSE <<Earlier(tickerC[1])>>
    /\ queue' = {QueueItem(i.Sensor, EarlierInQueue(queue, i), i.LastRetry) : i \in queue}
    /\ inFlight' = {[next |-> [a.next EXCEPT !.Time = Earlier(@)], now |-> Earlier(a.now)] :
                       a \in inFlight}
    /\ dataMap' = [x \in DOMAIN dataMap |->
                     IF dataMap[x].Data = <<>>
                     THEN dataMap[x]
                     ELSE [dataMap[x] EXCEPT !.Data = <<[@[1] EXCEPT !.Time = Earlier(@)]>>]]
    /\ data' = IF data = <<>> THEN data ELSE <<[data[1] EXCEPT !.Time = Earlier(@)]>>
    /\ idle' = FALSE
    /\ UNCHANGED <<retryConfig, clock, pc, sensors, chain, afterOk, rearmed>>
    /\ UNCHANGED rest

\* A loop that takes the next tick while an update is still running.
AtSelectOrBusy == pc \in {"select", "reading"}

\* The loop is at its select statement.
AtSelect == pc = "select"

\* case now := <-ticker.C: getNextQueueItem(now), and the call of updateSensor.
\* The select statement takes this case whenever a tick is waiting, whether
\* or not ctx.Done() is ready as well.
DrainTick ==
    /\ AtSelect
    /\ tickerC # <<>>
    /\ tickerC' = <<>>
    /\ LET now == tickerC[1]
       IN  \/ /\ NextQueueItems(queue, now) = {}
              /\ idle' = (tracked # {})
              /\ UNCHANGED <<queue, pc, inFlight, rearmed>>
           \/ \E next \in NextQueueItems(queue, now) :
                /\ queue' = QueueDelete(queue, next.Sensor)
                /\ inFlight' = inFlight \cup {[next |-> next, now |-> now]}
                /\ rearmed' = rearmed \ {next.Sensor}
                /\ pc' = "reading"
                /\ idle' = FALSE
    /\ UNCHANGED <<retryConfig, dataMap, clock, data, sensors, chain, afterOk>>
    /\ UNCHANGED rest

\* miflora.ReadData returns the data it read.
ReadReturnsData(v) ==
    /\ pc = "reading"
    /\ data' = <<[Time |-> clock, Sensors |-> v]>>
    /\ pc' = "store"
    /\ idle' = FALSE
    /\ UNCHANGED <<retryConfig, dataMap, queue, clock, tickerC, inFlight, sensors,
                   chain, afterOk, rearmed>>
    /\ UNCHANGED rest

\* miflora.ReadData returns an error.
ReadReturnsError ==
    /\ pc = "reading"
    /\ pc' = "retry"
    /\ idle' = FALSE
    /\ UNCHANGED <<retryConfig, dataMap, queue, clock, tickerC, inFlight, data, sensors,
                   chain, afterOk, rearmed>>
    /\ UNCHANGED rest

\* An updateSensor that puts the item back into the queue after it has
\* stored the reading.
StoreReadingRearms(a) ==
    /\ pc = "store"
    /\ CanLock(dataLock)
    /\ IF a.next.Sensor \in DOMAIN dataMap
       THEN /\ dataMap' = StoreData(dataMap, a.next.Sensor, data[1])
            /\ pc' = "select"
            /\ afterOk' = [x \in tracked |->
                              IF x = a.next.Sensor
                              THEN <<[retry |-> a.next.LastRetry, failures |-> 0]>>
                              ELSE afterOk[x]]
       ELSE /\ pc' = "panic"
            /\ UNCHANGED <<dataMap, afterOk>>
    /\ queue' = QueueSet(queue, QueueItem(a.next.Sensor, a.now, 0))
    /\ inFlight' = inFlight \ {a}
    /\ data' = <<>>
    /\ idle' = FALSE
    /\ UNCHANGED <<retryConfig, clock, tickerC, sensors, chain, rearmed>>
    /\ UNCHANGED rest

\* updateSensor after the read: u.dataLock.Lock() returns, the reading is
\* stored, and the deferred Unlock runs.  A missing record makes mapItem nil,
\* and the assignment panics.
StoreReading(a) ==
    /\ pc = "store"
    /\ CanLock(dataLock)
    /\ IF a.next.Sensor \in DOMAIN dataMap
       THEN /\ dataMap' = StoreData(dataMap, a.next.Sensor, data[1])
            /\ pc' = "select"
            /\ afterOk' = [x \in tracked |->
                              IF x = a.next.Sensor
                              THEN <<[retry |-> a.next.LastRetry, failures |-> 0]>>
                              ELSE afterOk[x]]
       ELSE /\ pc' = "panic"
            /\ UNCHANGED <<dataMap, afterOk>>
    /\ inFlight' = inFlight \ {a}
    /\ data' = <<>>
    /\ idle' = FALSE
    /\ UNCHANGED <<retryConfig, queue, clock, tickerC, sensors, chain, rearmed>>
    /\ UNCHANGED rest

\* History: one more failed attempt of address s.
FailureNoted(h, s) ==
    [x \in DOMAIN h |->
       IF x = s /\ h[x] # <<>>
       THEN <<[h[x][1] EXCEPT !.failures = IF @ < 2 THEN @ + 1 ELSE 2]>>
       ELSE h[x]]

\* A retryItem that also drops the sensor's stored reading.
retryItemClearingData(a, retryAfter) ==
    /\ pc = "retry"
    /\ queue' = QueueSet(queue, QueueItem(a.next.Sensor, a.now + retryAfter, retryAfter))
    /\ inFlight' = inFlight \ {a}
    /\ pc' = "select"
    /\ chain' = [x \in tracked |->
                    IF x = a.next.Sensor /\ chain[x] < ChainCap THEN chain[x] + 1 ELSE chain[x]]
    /\ afterOk' = FailureNoted(afterOk, a.next.Sensor)
    /\ rearmed' = (rearmed \cup {a.next.Sensor}) \cap tracked
    /\ dropped' = Failed(a.next.Sensor)
    /\ dataMap' = [x \in DOMAIN dataMap |->
                     IF x = a.next.Sensor THEN [dataMap[x] EXCEPT !.Data = <<>>]
                                          ELSE dataMap[x]]
    /\ idle' = FALSE
    /\ UNCHANGED <<retryConfig, clock, tickerC, data, sensors>>
    /\ UNCHANGED others

\* A loop that repeats a failed read at once, without re-enqueueing the item.
retryItemAtOnce(a, retryAfter) ==
    /\ pc = "retry"
    /\ pc' = "reading"
    /\ idle' = FALSE
    /\ UNCHANGED <<retryConfig, dataMap, queue, clock, tickerC, inFlight, data, sensors,
                   chain, afterOk, rearmed>>
    /\ UNCHANGED rest

\* retryItem(next, now), for one of the values it can compute for retryAfter.
\* Start calls it for every error of updateSensor, cancelled context or not.
retryItem(a, retryAfter) ==
    /\ pc = "retry"
    /\ queue' = QueueSet(queue, QueueItem(a.next.Sensor, a.now + retryAfter, retryAfter))
    /\ inFlight' = inFlight \ {a}
    /\ pc' = "select"
    /\ chain' = [x \in tracked |->
                    IF x = a.next.Sensor /\ chain[x] < ChainCap THEN chain[x] + 1 ELSE chain[x]]
    /\ afterOk' = FailureNoted(afterOk, a.next.Sensor)
    /\ rearmed' = (rearmed \cup {a.next.Sensor}) \cap tracked
    /\ dropped' = Failed(a.next.Sensor)
    /\ idle' = FALSE
    /\ UNCHANGED <<retryConfig, dataMap, clock, tickerC, data, sensors>>
    /\ UNCHANGED others

\* The steps of the program when the callers register the sensors addrs and
\* the clock runs for maxTicks periods of the ticker.
NextFor(addrs, maxTicks) ==
    \/ \E s \in addrs : AddSensor(s)
    \/ UpdateAll
    \/ \E s \in addrs : scheduleUpdate(s)
    \/ Tick(maxTicks)
    \/ DrainTick
    \/ \E v \in SensorValues : ReadReturnsData(v)
    \/ ReadReturnsError
    \/ \E a \in inFlight : StoreReading(a)
    \/ \E a \in inFlight :
         \E r \in RetryAfter(a.next.LastRetry, retryConfig) : retryItem(a, r)

\* Two sensors.
Next == NextFor(Addrs, MaxTicks)

Spec == Init /\ [][Next]_vars

\* One sensor, over a longer time.
NextSolo == NextFor({"A"}, MaxTicksSolo)

SpecSolo == Init /\ [][NextSolo]_vars

\* One sensor, with the history of the entries that scheduleUpdate replaces;
\* Parse was given no --retry-* flag, or --retry-max-duration 1m
\* --retry-factor 1.5.
InitBackoff ==
    /\ retryConfig \in {DefaultRetry, RetryConfig(30, 60, 3, 2)}
    /\ dataMap = <<>>
    /\ queue = {}
    /\ clock = 0
    /\ tickerC = <<>>
    /\ pc = "select"
    /\ inFlight = {}
    /\ data = <<>>
    /\ sensors = {}
    /\ chain = <<>>
    /\ afterOk = <<>>
    /\ rearmed = {}
    /\ dropped = [a \in {"A"} |-> <<>>]
    /\ locks = NoLocks
    /\ reader = newQueuedDataReader(FALSE)
    /\ idle = FALSE
    /\ ctxDone = FALSE
    /\ wg = 1
    /\ dataLock = 0
    /\ scrape = [pc |-> "idle", macAddress |-> "", ret |-> <<>>, before |-> <<>>,
                 ch |-> <<>>, StaleDuration |-> DefaultStale]

SpecBackoff == InitBackoff /\ [][NextSolo]_vars

(***************************************************************************)
(* The collector: Collect calls Source = GetData for a sensor.  The steps  *)
(* of one call of GetData.                                                 *)
(***************************************************************************)
\* collectSensor calls c.Source(macAddress); GetData is at u.dataLock.RLock().
GetDataCalled(macAddress) ==
    /\ scrape.pc = "idle"
    /\ scrape' = [scrape EXCEPT !.pc = "called", !.macAddress = macAddress,
                                !.ret = <<>>, !.before = <<>>, !.ch = <<>>]
    /\ idle' = FALSE
    /\ UNCHANGED <<retryConfig, dataMap, queue, clock, tickerC, pc, inFlight, data, sensors,
                   chain, afterOk, rearmed, dropped, reader, locks, ctxDone, wg, dataLock>>

\* RLock() returns.
GetDataRLock ==
    /\ scrape.pc = "called"
    /\ ~WriterAtLock
    /\ dataLock' = dataLock + 1
    /\ scrape' = [scrape EXCEPT !.pc = "rlocked",
                                !.before = IF scrape.macAddress \in DOMAIN dataMap
                                           THEN dataMap[scrape.macAddress].Data
                                           ELSE <<>>]
    /\ idle' = FALSE
    /\ UNCHANGED <<retryConfig, dataMap, queue, clock, tickerC, pc, inFlight, data, sensors,
                   chain, afterOk, rearmed, dropped, reader, locks, ctxDone, wg>>

\* A GetData that schedules an update of a sensor it has no data for.
GetDataLooksScheduling ==
    /\ scrape.pc = "rlocked"
    /\ LET r == GetData(dataMap, scrape.macAddress)
       IN  IF r.err # ""
           THEN /\ scrape' = [scrape EXCEPT !.pc = "runlock", !.ret = r]
                /\ queue' = QueueSet(queue, QueueItem(scrape.macAddress, clock, 0))
           ELSE /\ scrape' = [scrape EXCEPT
                                !.pc = "copying",
                                !.ret = [err |-> "",
                                         data |-> <<[Time |-> r.data[1].Time, Sensors |-> ""]>>]]
                /\ queue' = queue
    /\ idle' = FALSE
    /\ UNCHANGED <<retryConfig, dataMap, clock, tickerC, pc, inFlight, data, sensors,
                   chain, afterOk, rearmed, dropped, reader, locks, ctxDone, wg, dataLock>>

\* d, ok := u.dataMap[macAddress] and the two checks; when there is data the
\* copy of *d.Data to the result begins with the field Time.
GetDataLooks ==
    /\ scrape.pc = "rlocked"
    /\ LET r == GetData(dataMap, scrape.macAddress)
       IN  IF r.err # ""
           THEN scrape' = [scrape EXCEPT !.pc = "runlock", !.ret = r]
           ELSE scrape' = [scrape EXCEPT
                             !.pc = "copying",
                             !.ret = [err |-> "",
                                      data |-> <<[Time |-> r.data[1].Time, Sensors |-> ""]>>]]
    /\ idle' = FALSE
    /\ UNCHANGED <<retryConfig, dataMap, queue, clock, tickerC, pc, inFlight, data, sensors,
                   chain, afterOk, rearmed, dropped, reader, locks, ctxDone, wg, dataLock>>

\* The copy of *d.Data goes on with the field Sensors.
GetDataCopies ==
    /\ scrape.pc = "copying"
    /\ LET d == IF scrape.macAddress \in DOMAIN dataMap
                THEN dataMap[scrape.macAddress].Data
                ELSE <<>>
       IN  scrape' = [scrape EXCEPT
                        !.pc = "runlock",
                        !.ret = [err |-> "",
                                 data |-> <<[Time |-> scrape.ret.data[1].Time,
                                             Sensors |-> IF d = <<>> THEN "" ELSE d[1].Sensors]>>]]
    /\ idle' = FALSE
    /\ UNCHANGED <<retryConfig, dataMap, queue, clock, tickerC, pc, inFlight, data, sensors,
                   chain, afterOk, rearmed, dropped, reader, locks, ctxDone, wg, dataLock>>

\* A GetData that returns without releasing the read lock.
GetDataKeepsLock ==
    /\ scrape.pc = "runlock"
    /\ scrape' = [scrape EXCEPT !.pc = "idle"]
    /\ idle' = FALSE
    /\ UNCHANGED <<retryConfig, dataMap, queue, clock, tickerC, pc, inFlight, data, sensors,
                   chain, afterOk, rearmed, dropped, reader, locks, ctxDone, wg, dataLock>>

\* The deferred RUnlock runs and GetData returns ret.
GetDataRUnlock ==
    /\ scrape.pc = "runlock"
    /\ dataLock' = dataLock - 1
    /\ scrape' = [scrape EXCEPT !.pc = "idle"]
    /\ idle' = FALSE
    /\ UNCHANGED <<retryConfig, dataMap, queue, clock, tickerC, pc, inFlight, data, sensors,
                   chain, afterOk, rearmed, dropped, reader, locks, ctxDone, wg>>

\* The steps of a call of GetData once it is made.
GetDataRuns == GetDataRLock \/ GetDataLooks \/ GetDataCopies \/ GetDataRUnlock

\* The metrics collectData sends for the reading d.  The readings of the
\* model carry no Firmware: the value of the battery metric is left open.
collectData(d) ==
    << [Desc |-> "battery_percent", Value |-> "Firmware.Battery"],
       [Desc |-> "conductivity_sm", Value |-> d.Sensors],
       [Desc |-> "brightness_lux", Value |-> d.Sensors],
       [Desc |-> "moisture_percent", Value |-> d.Sensors],
       [Desc |-> "temperature_celsius", Value |-> d.Sensors] >>

\* A collectSensor that goes on after it has sent up = 0 for an error.
collectSensorNoReturn(ret, age, staleDuration) ==
    LET d == IF ret.data = <<>> THEN [Time |-> 0, Sensors |-> ""] ELSE ret.data[1]
    IN  (IF ret.err # "" THEN <<[Desc |-> "up", Value |-> 0]>> ELSE <<>>)
        \o << [Desc |-> "up", Value |-> 1],
              [Desc |-> "updated_timestamp", Value |-> d.Time],
              [Desc |-> "info", Value |-> 1] >>
        \o (IF age >= staleDuration THEN <<>> ELSE collectData(d))

\* A collectSensor that takes a reading for stale only when it is older than
\* StaleDuration.
collectSensorStaleAfter(ret, age, staleDuration) ==
    IF ret.err # ""
    THEN <<[Desc |-> "up", Value |-> 0]>>
    ELSE << [Desc |-> "up", Value |-> 1],
            [Desc |-> "updated_timestamp", Value |-> ret.data[1].Time],
            [Desc |-> "info", Value |-> 1] >>
         \o (IF age > staleDuration THEN <<>> ELSE collectData(ret.data[1]))

\* collectSensor after c.Source has returned ret: the metrics it sends, in
\* order; age is time.Since(data.Time).  The labels are taken to be valid,
\* so that sendMetric sends every metric it is given.
collectSensor(ret, age, staleDuration) ==
    IF ret.err # ""
    THEN <<[Desc |-> "up", Value |-> 0]>>
    ELSE << [Desc |-> "up", Value |-> 1],
            [Desc |-> "updated_timestamp", Value |-> ret.data[1].Time],
            [Desc |-> "info", Value |-> 1] >>
         \o (IF age >= staleDuration THEN <<>> ELSE collectData(ret.data[1]))

\* time.Since(data.Time) for the result ret of GetData.
Age(ret) == IF ret.data = <<>> THEN 0 ELSE clock - ret.data[1].Time

\* GetData has returned and collectSensor has not sent its metrics yet.
Collecting == scrape.pc = "idle" /\ scrape.ret # <<>> /\ scrape.ch = <<>>

\* collectSensor sends its metrics for the result of GetData.
CollectSends ==
    /\ Collecting
    /\ scrape' = [scrape EXCEPT
                    !.ch = collectSensor(scrape.ret, Age(scrape.ret), scrape.StaleDuration)]
    /\ idle' = FALSE
    /\ UNCHANGED <<retryConfig, dataMap, queue, clock, tickerC, pc, inFlight, data, sensors,
                   chain, afterOk, rearmed, dropped, reader, locks, ctxDone, wg, dataLock>>

\* Values of --stale-duration, for --refresh-duration 10s (Parse wants
\* StaleDuration to be at least twice RefreshDuration).
StaleDurations == {2 * updaterTickDuration, 3 * updaterTickDuration}

InitCollect ==
    /\ retryConfig = DefaultRetry
    /\ dataMap = <<>>
    /\ queue = {}
    /\ clock = 0
    /\ tickerC = <<>>
    /\ pc = "select"
    /\ inFlight = {}
    /\ data = <<>>
    /\ sensors = {}
    /\ chain = <<>>
    /\ afterOk = <<>>
    /\ rearmed = {}
    /\ dropped = <<>>
    /\ locks = NoLocks
    /\ reader = newQueuedDataReader(FALSE)
    /\ idle = FALSE
    /\ ctxDone = FALSE
    /\ wg = 1
    /\ dataLock = 0
    /\ \E staleDuration \in StaleDurations :
         scrape = [pc |-> "idle", macAddress |-> "", ret |-> <<>>, before |-> <<>>,
                   ch |-> <<>>, StaleDuration |-> staleDuration]

\* Collect calls collectSensor for one sensor after the other.
NextCollect ==
    \/ NextFor({"A"}, MaxTicksScrape)
    \/ \E macAddress \in {"A", "AA:BB"} : ~Collecting /\ GetDataCalled(macAddress)
    \/ GetDataRuns
    \/ CollectSends

SpecCollect == InitCollect /\ [][NextCollect]_vars

\* Parse was given no --retry-* flag.
InitScrape == InitFor({}) /\ retryConfig = DefaultRetry

NextScrape ==
    \/ NextFor({"A"}, MaxTicksScrape)
    \/ \E v \in ScrapeValues : ReadReturnsData(v)
    \/ \E macAddress \in AllAddrs : GetDataCalled(macAddress)
    \/ GetDataRuns

\* The goroutines of the collector and of the loop are scheduled; nothing
\* is required of the ticker or of ReadData, which may never return.
FairScrape ==
    /\ WF_vars(GetDataRuns)
    /\ WF_vars(\E a \in inFlight : StoreReading(a))

SpecScrape == InitScrape /\ [][NextScrape]_vars /\ FairScrape

(***************************************************************************)
(* The clock runs without end.  The ticker keeps ticking, ReadData always  *)
(* returns, and the loop goes on when it can.                              *)
(***************************************************************************)
\* Parse was given --retry-min-duration 30s --retry-max-duration 30s --retry-factor 1.
InitLive == InitFor({}) /\ retryConfig = RetryConfig(30, 30, 1, 1)

TickLive == Tick(MaxTicksLive) \/ TickOn(MaxTicksLive)

NextLive == NextFor(Addrs, MaxTicksLive) \/ TickOn(MaxTicksLive)

\* The ticker ticks; the loop's goroutine is scheduled; ReadData returns.
FairLoop ==
    /\ WF_vars(TickLive)
    /\ WF_vars(DrainTick)
    /\ WF_vars((\E v \in SensorValues : ReadReturnsData(v)) \/ ReadReturnsError)
    /\ WF_vars(\E a \in inFlight : StoreReading(a))
    /\ WF_vars(\E a \in inFlight :
                 \E r \in RetryAfter(a.next.LastRetry, retryConfig) : retryItem(a, r))

SpecLive == InitLive /\ [][NextLive]_vars /\ FairLoop

(***************************************************************************)
(* Cancellation.  main's signal handler calls cancel(); the loop of Start  *)
(* returns when its select takes the case <-ctx.Done().                    *)
(***************************************************************************)
\* cancel()
Cancel ==
    /\ ~ctxDone
    /\ ctxDone' = TRUE
    /\ idle' = FALSE
    /\ UNCHANGED <<retryConfig, dataMap, queue, clock, tickerC, pc, inFlight, data, sensors,
                   chain, afterOk, rearmed, dropped, reader, locks, wg, dataLock, scrape>>

\* case <-ctx.Done(): return, and the deferred wg.Done().
ExitLoop ==
    /\ AtSelect
    /\ ctxDone
    /\ pc' = "exited"
    /\ wg' = wg - 1
    /\ idle' = FALSE
    /\ UNCHANGED <<retryConfig, dataMap, queue, clock, tickerC, inFlight, data, sensors,
                   chain, afterOk, rearmed, dropped, reader, locks, ctxDone, dataLock, scrape>>

NextCancel ==
    \/ NextFor({"A"}, MaxTicksLive)
    \/ TickOn(MaxTicksLive)
    \/ \E macAddress \in {"A"} : GetDataCalled(macAddress)
    \/ GetDataRuns
    \/ Cancel
    \/ ExitLoop

\* The ticker ticks, ReadData returns, the goroutines of the loop and of the
\* collector are scheduled.  A select statement with several ready cases
\* chooses one of them at random, so that a case that is ready again and
\* again is taken.
FairCancel ==
    /\ FairLoop
    /\ WF_vars(GetDataRuns)
    /\ SF_vars(ExitLoop)

SpecCancel == InitLive /\ [][NextCancel]_vars /\ FairCancel

(***************************************************************************)
(* The start of the program: main calls Parse with the flags of the        *)
(* command line, ends the process when Parse returns an error, and         *)
(* otherwise creates the Updater with the retry configuration and starts   *)
(* its loop.                                                               *)
(***************************************************************************)
InitStart ==
    /\ retryConfig \in FlagSets
    /\ dataMap = <<>>
    /\ queue = {}
    /\ clock = 0
    /\ tickerC = <<>>
    /\ pc = "parse"
    /\ inFlight = {}
    /\ data = <<>>
    /\ sensors = {}
    /\ chain = <<>>
    /\ afterOk = <<>>
    /\ rearmed = {}
    /\ dropped = <<>>
    /\ locks = NoLocks
    /\ reader = newQueuedDataReader(FALSE)
    /\ idle = FALSE
    /\ ctxDone = FALSE
    /\ wg = 0
    /\ dataLock = 0
    /\ scrape = [pc |-> "idle", macAddress |-> "", ret |-> <<>>, before |-> <<>>,
                 ch |-> <<>>, StaleDuration |-> DefaultStale]

\* config.Parse returns; on an error main calls log.Fatalf.
ParseFlags ==
    /\ pc = "parse"
    /\ pc' = IF ParseAccepts(retryConfig) THEN "parsed" ELSE "fatal"
    /\ idle' = FALSE
    /\ UNCHANGED <<retryConfig, dataMap, queue, clock, tickerC, inFlight, data, sensors,
                   chain, afterOk, rearmed>>
    /\ UNCHANGED rest

\* updater.New keeps the retry configuration it is given; Start adds the
\* loop to the wait group and creates the ticker.
New ==
    /\ pc = "parsed"
    /\ pc' = "select"
    /\ wg' = wg + 1
    /\ idle' = FALSE
    /\ UNCHANGED <<retryConfig, dataMap, queue, clock, tickerC, inFlight, data, sensors,
                   chain, afterOk, rearmed, dropped, reader, locks, ctxDone, dataLock, scrape>>

\* The Updater exists.
Created == pc \notin {"parse", "fatal", "parsed"}

NextStart ==
    \/ ParseFlags
    \/ New
    \/ Created /\ NextFor({"A"}, MaxTicks)

SpecStart == InitStart /\ [][NextStart]_vars

(***************************************************************************)
(* The locked sections step by step.  Every operation of the Updater that  *)
(* takes queueLock or dataLock is followed from its Lock() or RLock() to   *)
(* its deferred Unlock() or RUnlock(): one step takes the lock, the next   *)
(* does the work of the locked section and releases the lock.  No history  *)
(* is kept in this specification.                                          *)
(***************************************************************************)
\* The periods of the ticker in this specification.
MaxTicksLocks == 2

\* locks after goroutine p has taken lock l / has released it.
Taken(p, l) == [locks EXCEPT !.held[p] = @ \cup {l}]
Released(p, l) == [locks EXCEPT !.held[p] = @ \ {l}]

\* queueLock (sync.Mutex): Lock() returns when no goroutine holds it.
QueueLockFree == \A p \in Procs : "queueLock" \notin locks.held[p]

\* dataLock.Lock() of goroutine p returns when no goroutine holds the read
\* lock and no other goroutine holds the write lock.
DataLockFree(p) ==
    /\ CanLock(dataLock)
    /\ \A o \in {"Start", "AddSensor"} \ {p} : "dataLock" \notin locks.held[o]

\* dataLock.RLock() returns when no goroutine holds the write lock or waits
\* for it.
DataRLockFree == ~WriterAtLock /\ "dataLock" \notin locks.held["AddSensor"]

\* AddSensor: u.dataLock.Lock()
AddSensorLock ==
    /\ "dataLock" \notin locks.held["AddSensor"]
    /\ DataLockFree("AddSensor")
    /\ locks' = Taken("AddSensor", "dataLock")
    /\ idle' = FALSE
    /\ UNCHANGED <<retryConfig, dataMap, queue, clock, tickerC, pc, inFlight, data, sensors,
                   chain, afterOk, rearmed, dropped, reader, ctxDone, wg, dataLock, scrape>>

\* AddSensor: the assignment to the map and the deferred Unlock.
AddSensorAssigns(sensor) ==
    /\ "dataLock" \in locks.held["AddSensor"]
    /\ dataMap' = MapSet(dataMap, sensor, [Info |-> sensor, Data |-> <<>>])
    /\ locks' = Released("AddSensor", "dataLock")
    /\ idle' = FALSE
    /\ UNCHANGED <<retryConfig, queue, clock, tickerC, pc, inFlight, data, sensors,
                   chain, afterOk, rearmed, dropped, reader, ctxDone, wg, dataLock, scrape>>

\* UpdateAll calls getSensors: u.dataLock.RLock()
getSensorsRLock ==
    /\ locks.in = ""
    /\ sensors = {}
    /\ DataRLockFree
    /\ dataLock' = dataLock + 1
    /\ locks' = [Taken("UpdateAll", "dataLock") EXCEPT !.in = "getSensors"]
    /\ idle' = FALSE
    /\ UNCHANGED <<retryConfig, dataMap, queue, clock, tickerC, pc, inFlight, data, sensors,
                   chain, afterOk, rearmed, dropped, reader, ctxDone, wg, scrape>>

\* A getSensors that returns without releasing the read lock.
getSensorsKeepsRLock ==
    /\ locks.in = "getSensors"
    /\ sensors' = getSensors(dataMap)
    /\ locks' = [locks EXCEPT !.in = ""]
    /\ idle' = FALSE
    /\ UNCHANGED <<retryConfig, dataMap, queue, clock, tickerC, pc, inFlight, data,
                   chain, afterOk, rearmed, dropped, reader, ctxDone, wg, dataLock, scrape>>

\* getSensors collects the Info of every record, the deferred RUnlock runs,
\* and UpdateAll has its slice of sensors.
getSensorsReturns ==
    /\ locks.in = "getSensors"
    /\ sensors' = getSensors(dataMap)
    /\ dataLock' = dataLock - 1
    /\ locks' = [Released("UpdateAll", "dataLock") EXCEPT !.in = ""]
    /\ idle' = FALSE
    /\ UNCHANGED <<retryConfig, dataMap, queue, clock, tickerC, pc, inFlight, data,
                   chain, afterOk, rearmed, dropped, reader, ctxDone, wg, scrape>>

\* UpdateAll's loop calls scheduleUpdate: u.queueLock.Lock()
scheduleUpdateLock ==
    /\ locks.in = ""
    /\ sensors # {}
    /\ QueueLockFree
    /\ locks' = [Taken("UpdateAll", "queueLock") EXCEPT !.in = "scheduleUpdate"]
    /\ idle' = FALSE
    /\ UNCHANGED <<retryConfig, dataMap, queue, clock, tickerC, pc, inFlight, data, sensors,
                   chain, afterOk, rearmed, dropped, reader, ctxDone, wg, dataLock, scrape>>

\* scheduleUpdate(s): the assignment to the queue and the deferred Unlock.
scheduleUpdateAssigns(s) ==
    /\ locks.in = "scheduleUpdate"
    /\ s \in sensors
    /\ queue' = QueueSet(queue, QueueItem(s, clock, 0))
    /\ sensors' = sensors \ {s}
    /\ locks' = [Released("UpdateAll", "queueLock") EXCEPT !.in = ""]
    /\ idle' = FALSE
    /\ UNCHANGED <<retryConfig, dataMap, clock, tickerC, pc, inFlight, data,
                   chain, afterOk, rearmed, dropped, reader, ctxDone, wg, dataLock, scrape>>

\* case now := <-ticker.C, and the call of getNextQueueItem(now).
LoopReceives ==
    /\ AtSelect
    /\ tickerC # <<>>
    /\ tickerC' = <<>>
    /\ locks' = [locks EXCEPT !.now = tickerC]
    /\ pc' = "getNext"
    /\ idle' = FALSE
    /\ UNCHANGED <<retryConfig, dataMap, queue, clock, inFlight, data, sensors,
                   chain, afterOk, rearmed, dropped, reader, ctxDone, wg, dataLock, scrape>>

\* getNextQueueItem: u.queueLock.Lock()
getNextQueueItemLock ==
    /\ pc = "getNext"
    /\ "queueLock" \notin locks.held["Start"]
    /\ QueueLockFree
    /\ locks' = Taken("Start", "queueLock")
    /\ idle' = FALSE
    /\ UNCHANGED <<retryConfig, dataMap, queue, clock, tickerC, pc, inFlight, data, sensors,
                   chain, afterOk, rearmed, dropped, reader, ctxDone, wg, dataLock, scrape>>

\* getNextQueueItem looks for the item to update, the deferred Unlock runs,
\* and the loop goes back to its select or calls updateSensor.
getNextQueueItemReturns ==
    /\ pc = "getNext"
    /\ "queueLock" \in locks.held["Start"]
    /\ locks' = [Released("Start", "queueLock") EXCEPT !.now = <<>>]
    /\ LET now == locks.now[1]
       IN  \/ /\ NextQueueItems(queue, now) = {}
              /\ pc' = "select"
              /\ UNCHANGED <<queue, inFlight>>
           \/ \E next \in NextQueueItems(queue, now) :
                /\ queue' = QueueDelete(queue, next.Sensor)
                /\ inFlight' = inFlight \cup {[next |-> next, now |-> now]}
                /\ pc' = "reading"
    /\ idle' = FALSE
    /\ UNCHANGED <<retryConfig, dataMap, clock, tickerC, data, sensors,
                   chain, afterOk, rearmed, dropped, reader, ctxDone, wg, dataLock, scrape>>

\* updateSensor after the read: u.dataLock.Lock()
updateSensorLock ==
    /\ pc = "store"
    /\ "dataLock" \notin locks.held["Start"]
    /\ DataLockFree("Start")
    /\ locks' = Taken("Start", "dataLock")
    /\ idle' = FALSE
    /\ UNCHANGED <<retryConfig, dataMap, queue, clock, tickerC, pc, inFlight, data, sensors,
                   chain, afterOk, rearmed, dropped, reader, ctxDone, wg, dataLock, scrape>>

\* updateSensor stores the reading and the deferred Unlock runs.  A missing
\* record makes mapItem nil, and the assignment panics.
updateSensorStores(a) ==
    /\ pc = "store"
    /\ "dataLock" \in locks.held["Start"]
    /\ IF a.next.Sensor \in DOMAIN dataMap
       THEN /\ dataMap' = StoreData(dataMap, a.next.Sensor, data[1])
            /\ pc' = "select"
       ELSE /\ pc' = "panic"
            /\ UNCHANGED dataMap
    /\ inFlight' = inFlight \ {a}
    /\ data' = <<>>
    /\ locks' = Released("Start", "dataLock")
    /\ idle' = FALSE
    /\ UNCHANGED <<retryConfig, queue, clock, tickerC, sensors,
                   chain, afterOk, rearmed, dropped, reader, ctxDone, wg, dataLock, scrape>>

\* retryItem has computed retryAfter: u.queueLock.Lock()
retryItemLock ==
    /\ pc = "retry"
    /\ "queueLock" \notin locks.held["Start"]
    /\ QueueLockFree
    /\ locks' = Taken("Start", "queueLock")
    /\ idle' = FALSE
    /\ UNCHANGED <<retryConfig, dataMap, queue, clock, tickerC, pc, inFlight, data, sensors,
                   chain, afterOk, rearmed, dropped, reader, ctxDone, wg, dataLock, scrape>>

\* retryItem: the assignment to the queue and the deferred Unlock.
retryItemAssigns(a, retryAfter) ==
    /\ pc = "retry"
    /\ "queueLock" \in locks.held["Start"]
    /\ queue' = QueueSet(queue, QueueItem(a.next.Sensor, a.now + retryAfter, retryAfter))
    /\ inFlight' = inFlight \ {a}
    /\ pc' = "select"
    /\ locks' = Released("Start", "queueLock")
    /\ idle' = FALSE
    /\ UNCHANGED <<retryConfig, dataMap, clock, tickerC, data, sensors,
                   chain, afterOk, rearmed, dropped, reader, ctxDone, wg, dataLock, scrape>>

\* GetData: RLock() returns.
GetDataRLockReturns == DataRLockFree /\ GetDataRLock

\* The steps by which a goroutine takes a lock it has asked for.
LockSteps ==
    \/ scheduleUpdateLock
    \/ getNextQueueItemLock
    \/ updateSensorLock
    \/ retryItemLock
    \/ GetDataRLockReturns

\* The steps of the locked sections, up to the release of the lock, of the
\* caller of AddSensor, of the caller of UpdateAll, of the loop of Start and
\* of the caller of GetData.
AddSensorLocked == \E s \in {"A"} : AddSensorAssigns(s)

UpdateAllLocked ==
    \/ getSensorsReturns
    \/ \E s \in {"A"} : scheduleUpdateAssigns(s)

LoopLocked ==
    \/ LoopReceives
    \/ getNextQueueItemReturns
    \/ \E a \in inFlight : updateSensorStores(a)
    \/ \E a \in inFlight :
         \E r \in RetryAfter(a.next.LastRetry, retryConfig) : retryItemAssigns(a, r)

GetDataLocked == GetDataLooks \/ GetDataCopies \/ GetDataRUnlock

LockedSteps == AddSensorLocked \/ UpdateAllLocked \/ LoopLocked \/ GetDataLocked

\* The calls made from outside, the ticker and the sensor.
OutsideSteps ==
    \/ AddSensorLock
    \/ getSensorsRLock
    \/ \E macAddress \in {"A"} : GetDataCalled(macAddress)
    \/ Tick(MaxTicksLocks)
    \/ \E v \in SensorValues : ReadReturnsData(v)
    \/ ReadReturnsError

NextLocks == LockSteps \/ LockedSteps \/ OutsideSteps

\* Every goroutine is scheduled: a goroutine inside a locked section goes
\* on, and a Lock() or RLock() that can return again and again does return.
\* Nothing is required of the callers, of the ticker or of ReadData, which
\* may never return.
FairLocks ==
    /\ SF_vars(scheduleUpdateLock)
    /\ SF_vars(getNextQueueItemLock)
    /\ SF_vars(updateSensorLock)
    /\ SF_vars(retryItemLock)
    /\ SF_vars(GetDataRLockReturns)
    /\ WF_vars(AddSensorLocked)
    /\ WF_vars(UpdateAllLocked)
    /\ WF_vars(LoopLocked)
    /\ WF_vars(GetDataLocked)

SpecLocks == InitScrape /\ [][NextLocks]_vars /\ FairLocks

(***************************************************************************)
(* The queuedReader: the loop of Run and the callers of the closures that  *)
(* ReadFunc returns.  The Updater is not part of this program: its         *)
(* variables stay as they are.                                             *)
(***************************************************************************)
\* The variables of the Updater and of its callers.
updater == <<retryConfig, dataMap, queue, clock, tickerC, pc, inFlight, data, sensors,
             chain, afterOk, rearmed, dropped, locks, dataLock, scrape>>

\* The values a read of r.shutdown can give.  The field is written by the
\* loop and read by the callers with no synchronisation: a caller can miss
\* a write that has been made.
ShutdownSeen == IF reader.shutdown THEN {TRUE, FALSE} ELSE {FALSE}

\* What miflora.ReadData can return.
ReadResults ==
    {[Data |-> v, Err |-> ""] : v \in SensorValues} \cup {[Data |-> "", Err |-> "read error"]}

\* A goroutine calls the closure of sensor c.
ReadFuncCalled(c) ==
    /\ reader.callers[c].pc = "idle"
    /\ reader' = [reader EXCEPT !.callers[c] = [pc |-> "check", ret |-> <<>>]]
    /\ idle' = FALSE
    /\ UNCHANGED <<ctxDone, wg>>
    /\ UNCHANGED updater

\* if r.shutdown { return miflora.Data{}, errors.New("reader shut down") }
ReadFuncChecks(c) ==
    /\ reader.callers[c].pc = "check"
    /\ \E seen \in ShutdownSeen :
         reader' = [reader EXCEPT !.callers[c] =
                      IF seen
                      THEN [pc |-> "idle", ret |-> <<[Data |-> "", Err |-> "reader shut down"]>>]
                      ELSE [pc |-> "send", ret |-> <<>>]]
    /\ idle' = FALSE
    /\ UNCHANGED <<ctxDone, wg>>
    /\ UNCHANGED updater

\* r.queryCh <- q: the channel holds one query.
ReadFuncSends(c) ==
    /\ reader.callers[c].pc = "send"
    /\ Len(reader.queryCh) < 1
    /\ reader' = [reader EXCEPT !.queryCh = Append(@, c), !.callers[c].pc = "wait"]
    /\ idle' = FALSE
    /\ UNCHANGED <<ctxDone, wg>>
    /\ UNCHANGED updater

\* case <-ctx.Done(): r.shutdown = true; return, and the deferred wg.Done().
RunExits ==
    /\ reader.pc = "select"
    /\ ctxDone
    /\ reader' = [reader EXCEPT !.pc = "exited", !.shutdown = TRUE]
    /\ wg' = wg - 1
    /\ idle' = FALSE
    /\ UNCHANGED ctxDone
    /\ UNCHANGED updater

\* case q := <-r.queryCh, and the call of miflora.ReadData.
RunReceives ==
    /\ reader.pc = "select"
    /\ reader.queryCh # <<>>
    /\ reader' = [reader EXCEPT !.pc = "reading", !.q = <<Head(reader.queryCh)>>,
                                !.queryCh = Tail(@)]
    /\ idle' = FALSE
    /\ UNCHANGED <<ctxDone, wg>>
    /\ UNCHANGED updater

\* miflora.ReadData returns res.
RunReads(res) ==
    /\ reader.pc = "reading"
    /\ reader' = [reader EXCEPT !.pc = "result", !.res = <<res>>]
    /\ idle' = FALSE
    /\ UNCHANGED <<ctxDone, wg>>
    /\ UNCHANGED updater

\* q.Result <- queryResult{...} meets the caller's res, ok := <-q.Result; the
\* caller returns res.Data, res.Err, the loop closes the channel and sleeps
\* for the cooldown period when there is one.
RunAnswers ==
    /\ reader.pc = "result"
    /\ reader.callers[reader.q[1]].pc = "wait"
    /\ reader' = [reader EXCEPT !.pc = IF reader.cooldown THEN "sleep" ELSE "select",
                                !.q = <<>>, !.res = <<>>,
                                !.callers[reader.q[1]] = [pc |-> "idle", ret |-> reader.res]]
    /\ idle' = FALSE
    /\ UNCHANGED <<ctxDone, wg>>
    /\ UNCHANGED updater

\* time.Sleep(r.cooldownPeriod) returns.
RunWakes ==
    /\ reader.pc = "sleep"
    /\ reader' = [reader EXCEPT !.pc = "select"]
    /\ idle' = FALSE
    /\ UNCHANGED <<ctxDone, wg>>
    /\ UNCHANGED updater

\* The steps of a call of a closure once it is made.
ReadFuncRuns(c) == ReadFuncChecks(c) \/ ReadFuncSends(c)

\* The steps of the loop after it has received a query.
RunServes == (\E res \in ReadResults : RunReads(res)) \/ RunAnswers \/ RunWakes

\* The reader was created with or without a cooldown period, and Run has
\* started its loop.
InitReader ==
    /\ retryConfig = DefaultRetry
    /\ dataMap = <<>>
    /\ queue = {}
    /\ clock = 0
    /\ tickerC = <<>>
    /\ pc = "select"
    /\ inFlight = {}
    /\ data = <<>>
    /\ sensors = {}
    /\ chain = <<>>
    /\ afterOk = <<>>
    /\ rearmed = {}
    /\ dropped = <<>>
    /\ locks = NoLocks
    /\ reader \in {newQueuedDataReader(cooldown) : cooldown \in BOOLEAN}
    /\ idle = FALSE
    /\ ctxDone = FALSE
    /\ wg = 1
    /\ dataLock = 0
    /\ scrape = [pc |-> "idle", macAddress |-> "", ret |-> <<>>, before |-> <<>>,
                 ch |-> <<>>, StaleDuration |-> DefaultStale]

NextReader ==
    \/ \E c \in Callers : ReadFuncCalled(c)
    \/ \E c \in Callers : ReadFuncRuns(c)
    \/ RunReceives
    \/ RunServes
    \/ RunExits
    \/ Cancel

\* The goroutines of the callers and of the loop are scheduled and ReadData
\* returns.  A send that can go on again and again does go on (a channel
\* serves its blocked senders in the order of their arrival).  A select
\* statement with several ready cases chooses one of them at random, so
\* that a case that is ready again and again is taken.  Nothing is required
\* of the calls or of the cancellation.
FairReader ==
    /\ \A c \in Callers : SF_vars(ReadFuncRuns(c))
    /\ WF_vars(RunServes)
    /\ SF_vars(RunReceives)
    /\ SF_vars(RunExits)

SpecReader == InitReader /\ [][NextReader]_vars /\ FairReader

(***************************************************************************)
(* Steps of a behaviour, recognised from the two states of the step.       *)
(***************************************************************************)
\* An update attempt for the attempt record a starts / ends in this step.
AttemptStarts(a) == a \notin inFlight /\ a \in inFlight'
AttemptEnds(a) == a \in inFlight /\ a \notin inFlight'
\* The attempt a ends by storing its reading / by a retry after an error.
AttemptSucceeds(a) == AttemptEnds(a) /\ pc = "store" /\ pc' = "select"
AttemptFails(a) == AttemptEnds(a) /\ pc = "retry"
\* UpdateAll's loop calls scheduleUpdate(s) in this step.
Schedules(s) == s \in sensors /\ s \notin sensors'
\* AddSensor(s) in this step: the record of s is fresh, and neither the
\* queue nor the update loop moves.
Registers(s) ==
    /\ s \in DOMAIN dataMap'
    /\ dataMap'[s] = [Info |-> s, Data |-> <<>>]
    /\ UNCHANGED <<queue, pc, inFlight, data, sensors, scrape>>
\* The items of sensor s in queue q.
ItemsOf(q, s) == {i \in q : i.Sensor = s}

(***************************************************************************)
(* C1: at every instant at most one update attempt is in flight            *)
(* system-wide, hence at most one per sensor.                              *)
(***************************************************************************)
C1_AtMostOneInFlight ==
    /\ Cardinality(inFlight) <= 1
    /\ \A s \in AllAddrs : Cardinality({a \in inFlight : a.next.Sensor = s}) <= 1

\* An attempt is in flight while UpdateAll is scheduling and another sensor waits.
C1_Witness ==
    /\ Cardinality(inFlight) = 1
    /\ pc = "reading"
    /\ sensors # {}
    /\ queue # {}
    /\ tickerC # <<>>

(***************************************************************************)
(* C2: GetData fails with the unknown-sensor error for an address that is  *)
(* not registered, and with the no-data error for a registered address for *)
(* which no attempt has succeeded, whatever failed attempts and refreshes  *)
(* happened.                                                               *)
(***************************************************************************)
C2_UnknownOrNoData ==
    \A s \in AllAddrs :
       /\ s \notin DOMAIN dataMap =>
             GetData(dataMap, s) =
               [err |-> "no sensor with MAC address registered", data |-> <<>>]
       /\ (s \in DOMAIN dataMap /\ s \notin succeeded) =>
             GetData(dataMap, s) = [err |-> "no data available", data |-> <<>>]

\* A registered sensor has failed twice and never succeeded; another address
\* is unregistered.
C2_Witness ==
    \E s \in DOMAIN dataMap :
       /\ s \notin succeeded
       /\ chain[s] >= 2
       /\ GetData(dataMap, s).err = "no data available"
       /\ GetData(dataMap, "AA:BB").err = "no sensor with MAC address registered"

(***************************************************************************)
(* C3: after an attempt for s succeeds with reading r, GetData(s) returns  *)
(* exactly r without error; what GetData returns for an address changes    *)
(* only by a successful attempt for that address or by its registration,   *)
(* so the success leaves every other record as it was.                     *)
(***************************************************************************)
C3_SuccessIsPublished ==
    [][ /\ \A a \in inFlight :
             AttemptSucceeds(a) =>
               /\ GetData(dataMap', a.next.Sensor) = [err |-> "", data |-> data]
               /\ \A s \in DOMAIN dataMap :
                     s # a.next.Sensor => dataMap'[s] = dataMap[s]
        /\ \A s \in AllAddrs :
             GetData(dataMap', s) # GetData(dataMap, s) =>
               \/ \E a \in inFlight : a.next.Sensor = s /\ AttemptSucceeds(a)
               \/ Registers(s)
      ]_vars

\* Both sensors hold a reading, taken at different times.
C3_Witness ==
    /\ \A s \in Addrs : GetData(dataMap, s).err = ""
    /\ \E s, t \in Addrs :
         GetData(dataMap, s).data[1].Time < GetData(dataMap, t).data[1].Time

(***************************************************************************)
(* C4: a failed attempt leaves the sensor store untouched: GetData returns *)
(* for every address, the failed one included, what it returned before.    *)
(***************************************************************************)
C4_FailureKeepsStore ==
    [][ \A a \in inFlight :
          AttemptFails(a) =>
            /\ dataMap' = dataMap
            /\ \A s \in AllAddrs : GetData(dataMap', s) = GetData(dataMap, s)
      ]_vars

\* A sensor that holds a reading has had a failed attempt since.
C4_Witness ==
    \E s \in Addrs :
       /\ GetData(dataMap, s).err = ""
       /\ s \notin lastOk
       /\ s \in rearmed

(***************************************************************************)
(* C5: the queue holds at most one entry per sensor address;               *)
(* scheduleUpdate(s) leaves exactly one entry for s, with Time the time of *)
(* the call and LastRetry 0, and leaves the other sensors' entries as they *)
(* were.                                                                   *)
(***************************************************************************)
C5_OneEntryPerSensor ==
    /\ [](\A i, j \in queue : i.Sensor = j.Sensor => i = j)
    /\ [][ \A s \in Addrs :
              Schedules(s) =>
                /\ ItemsOf(queue', s) = {QueueItem(s, clock, 0)}
                /\ \A t \in AllAddrs : t # s => ItemsOf(queue', t) = ItemsOf(queue, t)
          ]_vars

\* scheduleUpdate has replaced the retry entry of a sensor (its latest
\* attempt failed and none is running, so the entry was there), while the
\* other sensor keeps its retry entry.
C5_Witness ==
    \E i, j \in queue :
       /\ i.Sensor # j.Sensor
       /\ i = QueueItem(i.Sensor, clock, 0)
       /\ i.Sensor \in succeeded \ lastOk
       /\ chain[i.Sensor] = 0
       /\ \A a \in inFlight : a.next.Sensor # i.Sensor
       /\ i.Sensor \notin sensors
       /\ j.LastRetry > 0

(***************************************************************************)
(* The backoff policy of the specification: Next(previous) is MinDuration  *)
(* when previous < MinDuration, else min(previous * Factor, MaxDuration),  *)
(* in whole units of time.                                                 *)
(***************************************************************************)
BackoffNext(previous, c) ==
    IF previous < c.MinDuration
    THEN c.MinDuration
    ELSE LET p == (previous * c.FactorNum) \div c.FactorDen
         IN  IF p < c.MaxDuration THEN p ELSE c.MaxDuration

(***************************************************************************)
(* C6: the backoff step computed in retryItem equals Next(previous), for   *)
(* every previous delay and every valid retry configuration.               *)
(***************************************************************************)
C6_StepEqualsNext ==
    [][ \A a \in inFlight :
          AttemptFails(a) =>
            \A i \in ItemsOf(queue', a.next.Sensor) :
               i.LastRetry = BackoffNext(a.next.LastRetry, retryConfig)
      ]_vars

(***************************************************************************)
(* C7: with min = 30 s, max = 30 min, factor = 2, the k-th consecutive     *)
(* failed attempt after a scheduleUpdate of a sensor re-arms it with       *)
(* 30 * 2^(k-1) seconds, capped at 1800 s; no re-arm delay exceeds max.    *)
(***************************************************************************)
C7_DefaultSequence ==
    retryConfig = DefaultRetry =>
      \A i \in queue :
         i.Sensor \in rearmed =>
           LET d == 30 * 2 ^ (chain[i.Sensor] - 1)
           IN  /\ i.LastRetry = IF d < 1800 THEN d ELSE 1800
               /\ i.LastRetry <= 1800

(***************************************************************************)
(* C8: backoff resets on success: the first failed attempt of a sensor     *)
(* that follows a successful attempt of that sensor re-arms it with        *)
(* exactly MinDuration.                                                    *)
(***************************************************************************)
C8_ResetOnSuccess ==
    [][ \A a \in inFlight :
          (AttemptFails(a) /\ a.next.Sensor \in lastOk) =>
            ItemsOf(queue', a.next.Sensor) =
              {QueueItem(a.next.Sensor, a.now + retryConfig.MinDuration,
                         retryConfig.MinDuration)}
      ]_vars

\* The latest success of a sensor came from an item whose delay had grown
\* beyond MinDuration; one attempt has failed since, and its retry entry
\* carries MinDuration.
C8_Witness ==
    \E i \in queue :
       /\ i.Sensor \in rearmed
       /\ i.Sensor \in succeeded
       /\ afterOk[i.Sensor][1].failures = 1
       /\ afterOk[i.Sensor][1].retry > retryConfig.MinDuration
       /\ i.LastRetry = retryConfig.MinDuration

(***************************************************************************)
(* C9: when an attempt popped at a drain tick with timestamp t from an     *)
(* entry with LastRetry d fails, the sensor is re-enqueued with            *)
(* Time = t + Next(d) and LastRetry = Next(d); the entries of the other    *)
(* sensors are unchanged.                                                  *)
(***************************************************************************)
C9_RetryEntry ==
    [][ \A a \in inFlight :
          AttemptFails(a) =>
            LET n == BackoffNext(a.next.LastRetry, retryConfig)
            IN  /\ ItemsOf(queue', a.next.Sensor) =
                     {QueueItem(a.next.Sensor, a.now + n, n)}
                /\ \A t \in AllAddrs :
                     t # a.next.Sensor => ItemsOf(queue', t) = ItemsOf(queue, t)
      ]_vars

(***************************************************************************)
(* C10: after a failed attempt has re-armed a sensor with due time D, and  *)
(* as long as no scheduleUpdate for it happens, no attempt for it starts   *)
(* at a drain tick whose timestamp is earlier than D.                      *)
(***************************************************************************)
C10_NoAttemptBeforeDue ==
    [][ \A a \in inFlight' :
          (AttemptStarts(a) /\ a.next.Sensor \in rearmed) =>
            \A i \in ItemsOf(queue, a.next.Sensor) : ~(a.now < i.Time)
      ]_vars

\* An attempt is running that was started from a retry entry, at a tick not
\* earlier than the entry's due time, while the other sensor's retry entry
\* is not yet due and still queued.
C10_Witness ==
    \E a \in inFlight :
       /\ a.next.LastRetry > 0
       /\ a.now >= a.next.Time
       /\ \E i \in queue : i.Sensor \in rearmed /\ i.Time > clock

(***************************************************************************)
(* C11: a drain tick with timestamp now starts an attempt if and only if   *)
(* the queue is non-empty and the smallest due time in it is <= now; the   *)
(* attempt it starts carries that timestamp; when no entry is due the tick *)
(* changes neither the queue nor the store, and no read is issued.         *)
(***************************************************************************)
\* The loop receives the waiting tick in this step.
TickTaken == tickerC # <<>> /\ tickerC' = <<>>

C11_DrainTick ==
    [][ TickTaken =>
          LET now == tickerC[1]
              due == /\ queue # {}
                     /\ \E i \in queue : /\ \A j \in queue : i.Time <= j.Time
                                         /\ i.Time <= now
          IN  /\ (\E a \in inFlight' : AttemptStarts(a)) <=> due
              /\ \A a \in inFlight' : AttemptStarts(a) => a.now = now
              /\ ~due => UNCHANGED <<queue, dataMap, inFlight, pc, data>>
      ]_vars

\* A drain tick has just found a non-empty queue with nothing due: every
\* entry is a retry entry that is due later, and the store holds a reading.
C11_Witness ==
    /\ idle
    /\ queue # {}
    /\ \A i \in queue : i.Time > clock /\ i.Sensor \in rearmed
    /\ \E s \in Addrs : GetData(dataMap, s).err = ""
    /\ pc = "select"

(***************************************************************************)
(* C12: the due time determines the order of the attempts: whenever an     *)
(* attempt starts, the entry it was popped from was in the queue and its   *)
(* due time was no later than the due time of every entry of the queue at  *)
(* that moment.                                                            *)
(***************************************************************************)
C12_EarliestFirst ==
    [][ \A a \in inFlight' :
          AttemptStarts(a) =>
            /\ a.next \in queue
            /\ \A j \in queue : a.next.Time <= j.Time
      ]_vars

\* An attempt was started from the earlier of two entries that were both due
\* at its tick: the entry still queued was written by scheduleUpdate after
\* the popped entry's due time and before the tick's timestamp.
C12_Witness ==
    \E a \in inFlight :
       \E j \in queue :
          /\ j.LastRetry = 0
          /\ a.next.Time < j.Time
          /\ j.Time < a.now

(***************************************************************************)
(* C13: no sensor is starved: when the ticker keeps ticking, the loop is   *)
(* scheduled and every ReadData returns, a sensor that has an entry in the *)
(* queue eventually has an attempt started for it, also when UpdateAll     *)
(* keeps re-scheduling all sensors.  (Stated for the runs in which no two  *)
(* entries carry the same due time, as with a clock read in nanoseconds.)  *)
(***************************************************************************)
\* Sensor s has an entry in the queue / an attempt in flight.
Queued(s) == \E i \in queue : i.Sensor = s
InFlightFor(s) == \E a \in inFlight : a.next.Sensor = s

\* No two entries of the queue carry the same due time.
NoTies == \A i, j \in queue : i # j => i.Time # j.Time

C13_NoStarvation ==
    []NoTies => \A s \in Addrs : Queued(s) ~> InFlightFor(s)

(***************************************************************************)
(* C14: a failing sensor does not block the others: when no ReadData for   *)
(* sensor b ever returns data (each returns an error), and sensor s is,    *)
(* from some time on, not re-scheduled, then an entry of s in the queue    *)
(* leads to an attempt for s, provided the ticker ticks and the loop is    *)
(* scheduled; and when that attempt succeeds GetData(s) returns its        *)
(* reading.                                                                *)
(***************************************************************************)
\* ReadData has returned data for sensor b.
ReadFor(b) == pc = "store" /\ InFlightFor(b)

C14_FailingSensorDoesNotBlock ==
    /\ \A s, b \in Addrs :
          s # b =>
            (([]~ReadFor(b) /\ <>[](s \notin sensors)) => (Queued(s) ~> InFlightFor(s)))
    /\ [][ \A a \in inFlight :
             AttemptSucceeds(a) =>
               GetData(dataMap', a.next.Sensor) = [err |-> "", data |-> data]
       ]_vars

\* Sensor B has failed and waits for its retry, it has no reading, and the
\* store holds a reading of A taken after the clock has run its first
\* MaxTicksLive periods.
C14_Witness ==
    /\ \E i \in queue : i.Sensor = "B" /\ i.LastRetry > 0
    /\ GetData(dataMap, "B").err = "no data available"
    /\ GetData(dataMap, "A").err = ""
    /\ GetData(dataMap, "A").data[1].Time = MaxTicksLive * updaterTickDuration
    /\ ~Queued("A")

(***************************************************************************)
(* C15: GetData never waits for BLE I/O: a call of GetData, for any        *)
(* address, the sensor being read included, returns even if ReadData never *)
(* returns, and while a read is in flight a call that has been made can    *)
(* always take its next step: dataLock is not held across the read.        *)
(***************************************************************************)
C15_GetDataDoesNotWait ==
    /\ [](pc = "reading" /\ scrape.pc # "idle" => ENABLED GetDataRuns)
    /\ (scrape.pc # "idle") ~> (scrape.pc = "idle")

\* While the read for a sensor is in flight, a call of GetData for that
\* sensor holds the read lock, has copied the sensor's stored reading and is
\* about to return it.
C15_Witness ==
    \E a \in inFlight :
       /\ pc = "reading"
       /\ scrape.pc = "runlock"
       /\ dataLock = 1
       /\ scrape.macAddress = a.next.Sensor
       /\ scrape.ret = [err |-> "", data |-> dataMap[a.next.Sensor].Data]

(***************************************************************************)
(* C16: no torn reads: a reading returned by GetData(s) is, as a whole,    *)
(* the reading of the record of s from before or from after a store write  *)
(* of the update loop, never a mix of the fields of two readings.          *)
(***************************************************************************)
\* GetData returns in this step.
Returns == scrape.pc = "runlock" /\ scrape'.pc = "idle"

C16_NoTornRead ==
    [][ (Returns /\ scrape.ret.err = "") =>
          /\ scrape.macAddress \in DOMAIN dataMap
          /\ scrape'.ret.data # <<>>
          /\ scrape'.ret.data \in {scrape.before, dataMap[scrape.macAddress].Data}
      ]_vars

\* GetData is in the middle of its copy of the reading of a sensor while the
\* update loop waits in Lock() with a new reading of that sensor that
\* differs from the stored one in both fields.
C16_Witness ==
    /\ scrape.pc = "copying"
    /\ pc = "store"
    /\ InFlightFor(scrape.macAddress)
    /\ data[1].Time # dataMap[scrape.macAddress].Data[1].Time
    /\ data[1].Sensors # dataMap[scrape.macAddress].Data[1].Sensors

C18_NoAttemptAfterCancel ==
    [][ ctxDone => \A a \in inFlight' : ~AttemptStarts(a) ]_vars

(***************************************************************************)
(* C19: when the context is cancelled during a read, the loop exits        *)
(* without scheduling a further attempt: from the cancellation on, the end *)
(* of an attempt adds or re-arms no entry of the queue.                    *)
(***************************************************************************)
C19_NoRearmAfterCancel ==
    [][ ctxDone =>
          \A a \in inFlight :
             AttemptEnds(a) => \A s \in AllAddrs : ItemsOf(queue', s) \subseteq ItemsOf(queue, s)
      ]_vars

(***************************************************************************)
(* C20: after the cancellation the update loop eventually exits and        *)
(* releases the wait group, provided ReadData returns: it is not held up   *)
(* for ever by dataLock or by the ticker.                                  *)
(***************************************************************************)
C20_LoopExits == ctxDone ~> (pc = "exited" /\ wg = 0)

\* The loop has exited after a cancellation and the wait group is released;
\* before it exited, a call of GetData had returned "no data available",
\* and a later attempt, begun on a tick MaxTicksLive periods after the clock
\* origin, stored its reading through Lock(); the queue still has an entry.
C20_Witness ==
    /\ pc = "exited"
    /\ wg = 0
    /\ ctxDone
    /\ inFlight = {}
    /\ GetData(dataMap, "A").err = ""
    /\ GetData(dataMap, "A").data[1].Time = MaxTicksLive * updaterTickDuration
    /\ scrape.ret = [err |-> "no data available", data |-> <<>>]
    /\ queue # {}

(***************************************************************************)
(* C21: once the update loop has exited because of the cancellation, the   *)
(* queue holds no entry.                                                   *)
(***************************************************************************)
C21_QueueEmptyAfterExit == pc = "exited" => queue = {}

(***************************************************************************)
(* C22: every registered sensor is in exactly one of the states Idle,      *)
(* Queued and InFlight; in particular a sensor whose attempt is in flight  *)
(* has no queue entry, however UpdateAll interleaves with the loop.        *)
(***************************************************************************)
C22_InFlightNotQueued ==
    \A s \in Addrs : ~(InFlightFor(s) /\ Queued(s))

(***************************************************************************)
(* C23: an entry that scheduleUpdate writes for a sensor while an attempt  *)
(* for that sensor is in flight is still in the queue, with its Time and   *)
(* LastRetry = 0, when that attempt has ended, whatever its outcome.  (An  *)
(* entry a sensor has while its attempt is in flight was written by        *)
(* scheduleUpdate: the pop removed the entry the attempt started from.)    *)
(***************************************************************************)
C23_ScheduleSurvivesAttempt ==
    [][ \A a \in inFlight :
          AttemptEnds(a) => \A i \in ItemsOf(queue, a.next.Sensor) : i \in queue'
      ]_vars

(***************************************************************************)
(* C24: Parse returns an error when Factor < 1, when MaxDuration <         *)
(* MinDuration or when MinDuration < 30 s, and no error for the retry part *)
(* otherwise; no Updater exists with a retry configuration that violates   *)
(* one of the three bounds.                                                *)
(***************************************************************************)
InvalidRetryConfig(c) ==
    \/ c.FactorNum < c.FactorDen
    \/ c.MaxDuration < c.MinDuration
    \/ c.MinDuration < 30

C24_InvalidRetryConfigIsFatal ==
    /\ [](Created => ~InvalidRetryConfig(retryConfig))
    /\ [][pc = "parse" =>
            /\ InvalidRetryConfig(retryConfig) => pc' = "fatal"
            /\ ~InvalidRetryConfig(retryConfig) => pc' = "parsed"
            /\ retryConfig' = retryConfig]_vars
    /\ [][pc = "fatal" => pc' = "fatal"]_vars

\* Parse has returned its error for --retry-factor 0.5 (with
\* --retry-max-duration 1m) and log.Fatalf has ended the process; no
\* Updater was made.
C24_Witness ==
    /\ pc = "fatal"
    /\ retryConfig = RetryConfig(30, 60, 1, 2)
    /\ wg = 0

(***************************************************************************)
(* C25: AddSensor(s) leaves the address of s registered with no reading,   *)
(* so that GetData returns the no-data error for it, also when the address *)
(* had a reading and also while an attempt for it is in flight; the        *)
(* records of the other addresses are as before.                           *)
(***************************************************************************)
C25_AddSensorClears ==
    [][ \A s \in Addrs :
          AddSensor(s) =>
            /\ GetData(dataMap', s) = [err |-> "no data available", data |-> <<>>]
            /\ DOMAIN dataMap' = DOMAIN dataMap \cup {s}
            /\ \A o \in DOMAIN dataMap \ {s} : dataMap'[o] = dataMap[o]
      ]_vars

\* Sensor A has no reading although an attempt for it has succeeded (it was
\* registered again since), a further attempt for it is in flight, and the
\* other sensor has kept its reading.
C25_Witness ==
    /\ GetData(dataMap, "A").err = "no data available"
    /\ "A" \in succeeded
    /\ InFlightFor("A")
    /\ GetData(dataMap, "B").err = ""

(***************************************************************************)
(* C26: UpdateAll schedules every sensor that is registered when it is     *)
(* called exactly once, by one scheduleUpdate that leaves the sensor with  *)
(* the single entry {Time = the present, LastRetry = 0} and the other      *)
(* entries as they were; it creates no entry for an unregistered address.  *)
(***************************************************************************)
\* UpdateAll is called in this step (getSensors returned a sensor).
UpdateAllCalled == sensors = {} /\ sensors' # {}

C26_UpdateAllSchedulesRegistered ==
    /\ [][UpdateAllCalled => sensors' = DOMAIN dataMap]_vars
    /\ [][~UpdateAllCalled =>
            \/ sensors' = sensors
            \/ \E s \in sensors : Schedules(s) /\ sensors' = sensors \ {s}]_vars
    /\ [][\A s \in AllAddrs :
            Schedules(s) =>
              /\ ItemsOf(queue', s) = {QueueItem(s, clock, 0)}
              /\ \A o \in AllAddrs \ {s} : ItemsOf(queue', o) = ItemsOf(queue, o)]_vars
    /\ [](\A i \in queue : i.Sensor \in DOMAIN dataMap)

\* UpdateAll has scheduled both registered sensors, each once, after the
\* clock has run for a while: both entries carry the present time.
C26_Witness ==
    /\ DOMAIN dataMap = Addrs
    /\ sensors = {}
    /\ clock > 0
    /\ queue = {QueueItem(s, clock, 0) : s \in Addrs}

(***************************************************************************)
(* C27: the address of every queue entry and of the attempt in flight is a *)
(* registered address, so that the store write after a successful read     *)
(* finds its record: updateSensor never panics on a missing record.        *)
(***************************************************************************)
C27_OnlyRegisteredSensors ==
    /\ \A i \in queue : i.Sensor \in DOMAIN dataMap
    /\ \A a \in inFlight : a.next.Sensor \in DOMAIN dataMap
    /\ sensors \subseteq DOMAIN dataMap
    /\ pc # "panic"

\* ReadData has returned data for sensor B, which already has a reading,
\* and updateSensor is about to store it; sensor A waits in the queue.
C27_Witness ==
    /\ pc = "store"
    /\ InFlightFor("B")
    /\ GetData(dataMap, "B").err = ""
    /\ Queued("A")

(***************************************************************************)
(* C28: a drain tick starts at most one update attempt, and the pop that   *)
(* starts it removes the entry of the attempted sensor from the queue and  *)
(* leaves every other entry as it was, also when several entries are due.  *)
(***************************************************************************)
C28_OnePopPerTick ==
    [][ TickTaken =>
          \/ inFlight' = inFlight /\ queue' = queue
          \/ \E next \in queue :
                /\ inFlight' = inFlight \cup {[next |-> next, now |-> tickerC[1]]}
                /\ Cardinality(inFlight') = Cardinality(inFlight) + 1
                /\ queue' = queue \ {next}
      ]_vars

\* Both sensors were due at a drain tick: the attempt for one of them is in
\* flight, and the entry of the other, written before that tick and due at
\* it as well, is still in the queue.
C28_Witness ==
    /\ pc = "reading"
    /\ \E a \in inFlight : \E i \in queue :
          /\ i.Sensor # a.next.Sensor
          /\ i.Time < a.now
          /\ a.next.Time <= i.Time

(***************************************************************************)
(* C29: when GetData has returned an error for a sensor, the scrape sends  *)
(* the metric up with the value 0 for it and no other metric; when GetData *)
(* has returned a reading, it sends up with the value 1.                   *)
(***************************************************************************)
\* The metrics named desc among those sent.
Sent(desc) == {i \in DOMAIN scrape.ch : scrape.ch[i].Desc = desc}

C29_UpMetric ==
    (scrape.pc = "idle" /\ scrape.ret # <<>> /\ ~Collecting) =>
        /\ scrape.ret.err # "" => scrape.ch = <<[Desc |-> "up", Value |-> 0]>>
        /\ scrape.ret.err = "" =>
              /\ Cardinality(Sent("up")) = 1
              /\ \A i \in Sent("up") : scrape.ch[i].Value = 1

\* The scrape has sent up = 0, and nothing else, for a registered sensor
\* that has no reading yet while its first read is in flight.
C29_Witness ==
    /\ scrape.macAddress = "A"
    /\ scrape.ret = [err |-> "no data available", data |-> <<>>]
    /\ scrape.ch = <<[Desc |-> "up", Value |-> 0]>>
    /\ InFlightFor("A")

(***************************************************************************)
(* C30: for a reading whose age is at least StaleDuration the scrape sends *)
(* up = 1, the updated timestamp and info, and none of the battery,        *)
(* conductivity, light, moisture and temperature metrics; for a younger    *)
(* reading it sends all of them.  The update loop never clears a reading   *)
(* of the store, whatever its age: only AddSensor does.                    *)
(***************************************************************************)
\* The names of the metrics in ch, in the order sent.
Descs(ch) == [i \in DOMAIN ch |-> ch[i].Desc]

\* collectSensor sends its metrics in this step.
Sends == scrape.ch = <<>> /\ scrape'.ch # <<>>

C30_StaleReadingIsAbsent ==
    /\ [][ (Sends /\ scrape.ret.err = "") =>
              IF clock - scrape.ret.data[1].Time >= scrape.StaleDuration
              THEN Descs(scrape'.ch) = <<"up", "updated_timestamp", "info">>
              ELSE Descs(scrape'.ch) =
                     <<"up", "updated_timestamp", "info", "battery_percent", "conductivity_sm",
                       "brightness_lux", "moisture_percent", "temperature_celsius">>
          ]_vars
    /\ [][ \A s \in DOMAIN dataMap :
              (dataMap[s].Data # <<>> /\ GetData(dataMap', s).err # "") =>
                 Registers(s) /\ clock' = clock /\ tickerC' = tickerC
          ]_vars

\* The scrape has sent up = 1, the timestamp and info only, for a reading
\* that was exactly StaleDuration old; the store still holds the reading.
C30_Witness ==
    /\ scrape.ret # <<>>
    /\ scrape.ret.err = ""
    /\ Len(scrape.ch) = 3
    /\ clock - scrape.ret.data[1].Time = scrape.StaleDuration
    /\ GetData(dataMap, "A") = scrape.ret

(***************************************************************************)
(* C31: for every retry configuration that Parse accepts, LastRetry of     *)
(* every queue entry is 0 or lies between MinDuration and MaxDuration, and *)
(* a failure that follows a failure re-arms with a delay that is not       *)
(* smaller than the one before, and with MaxDuration once that was         *)
(* reached.                                                                *)
(***************************************************************************)
C31_DelayWithinBounds ==
    /\ [](\A i \in queue :
            \/ i.LastRetry = 0
            \/ /\ retryConfig.MinDuration <= i.LastRetry
               /\ i.LastRetry <= retryConfig.MaxDuration)
    /\ [][ \A a \in inFlight :
              (AttemptFails(a) /\ a.next.LastRetry # 0) =>
                 \A i \in ItemsOf(queue', a.next.Sensor) :
                    /\ i.LastRetry >= a.next.LastRetry
                    /\ a.next.LastRetry = retryConfig.MaxDuration =>
                          i.LastRetry = retryConfig.MaxDuration
          ]_vars

(***************************************************************************)
(* C32: scheduleUpdate(s) on a sensor whose entry was re-armed by a retry  *)
(* (LastRetry > 0) and is not yet due replaces it by the entry {Time = the *)
(* present, LastRetry = 0}, and the next failed attempt of s re-arms it    *)
(* with MinDuration, not with a delay grown from the replaced one.         *)
(***************************************************************************)
C32_RefreshDropsBackoff ==
    /\ [][ \A s \in Addrs :
              (Schedules(s) /\ Pending(s) # {}) =>
                 ItemsOf(queue', s) = {QueueItem(s, clock, 0)}
          ]_vars
    /\ [][ \A a \in inFlight :
              ( /\ AttemptFails(a)
                /\ a.next.Sensor \in DOMAIN dropped
                /\ dropped[a.next.Sensor] # <<>>
                /\ ~dropped[a.next.Sensor][1].failed ) =>
                 ItemsOf(queue', a.next.Sensor) =
                   {QueueItem(a.next.Sensor, a.now + retryConfig.MinDuration,
                              retryConfig.MinDuration)}
          ]_vars

\* A scheduleUpdate has replaced a pending entry of sensor A whose delay had
\* grown beyond MinDuration; the attempt that followed has failed, and the
\* entry it left carries MinDuration.
C32_Witness ==
    /\ dropped["A"] # <<>>
    /\ dropped["A"][1].failed
    /\ dropped["A"][1].LastRetry > retryConfig.MinDuration
    /\ \E i \in queue : i.Sensor = "A" /\ i.LastRetry = retryConfig.MinDuration


(***************************************************************************)
(* C33: no operation of the Updater holds queueLock and dataLock at the    *)
(* same time, and the update loop holds neither of them while ReadData     *)
(* runs; hence no goroutine is stuck in an operation: UpdateAll, AddSensor,*)
(* GetData and the locked sections of the loop always come to their end,   *)
(* UpdateAll also while an attempt is in flight whose read never returns.  *)
(***************************************************************************)
\* The caller of UpdateAll is in the operation.
InUpdateAll == locks.in # "" \/ sensors # {}
\* The loop has received a tick and looks up the queue, or is past the read
\* of an attempt.
InLoopSection == pc \in {"getNext", "store", "retry"}

C33_NoNestedLocks ==
    /\ [](\A p \in Procs : Cardinality(locks.held[p]) <= 1)
    /\ [](pc = "reading" => locks.held["Start"] = {})
    /\ InUpdateAll ~> ~InUpdateAll
    /\ (locks.held["AddSensor"] # {}) ~> (locks.held["AddSensor"] = {})
    /\ (scrape.pc # "idle") ~> (scrape.pc = "idle")
    /\ InLoopSection ~> ~InLoopSection

\* UpdateAll has completed during an attempt: the read is still running, the
\* sensor of the attempt has its entry in the queue again, and no goroutine
\* holds a lock.
C33_Witness ==
    /\ pc = "reading"
    /\ ~InUpdateAll
    /\ \A p \in Procs : locks.held[p] = {}
    /\ \E a \in inFlight : \E i \in queue : i.Sensor = a.next.Sensor /\ i.LastRetry = 0


(***************************************************************************)
(* C34: a queue entry is removed only by the start of an attempt for its   *)
(* own sensor.  A sensor that has an entry in the queue has one after      *)
(* every step (the same or a newer one) unless the step starts an attempt  *)
(* for that sensor: the attempts of the other sensor, AddSensor, UpdateAll *)
(* and the ticks at which nothing is due remove no entry.                  *)
(***************************************************************************)
C34_EntryLeavesByOwnAttempt ==
    [][ \A s \in Addrs :
          Queued(s) /\ ~Queued(s)' =>
             \E a \in inFlight' : AttemptStarts(a) /\ a.next.Sensor = s
      ]_vars

\* The entry of one sensor, re-armed after a failure and not yet due, has
\* outlived the start of the attempt for the other sensor that is now in
\* flight (the loop re-arms no entry during an attempt).
C34_Witness ==
    /\ pc = "reading"
    /\ \E a \in inFlight : \E i \in queue :
          /\ i.Sensor # a.next.Sensor
          /\ i.LastRetry > 0
          /\ i.Time > a.now


(***************************************************************************)
(* C35: a successful attempt writes only the store record of its own       *)
(* sensor.  The steps the update loop takes between the pop and the end of *)
(* a successful attempt (the return of the read with data, the store)      *)
(* leave the queue as it is, and the store changes no record but the Data  *)
(* of the sensor of the attempt.                                           *)
(***************************************************************************)
C35_SuccessWritesOwnRecord ==
    [][ /\ (pc = "reading" /\ pc' = "store") => queue' = queue /\ dataMap' = dataMap
        /\ \A a \in inFlight :
              AttemptSucceeds(a) =>
                 /\ queue' = queue
                 /\ DOMAIN dataMap' = DOMAIN dataMap
                 /\ \A x \in DOMAIN dataMap :
                       /\ dataMap'[x].Info = dataMap[x].Info
                       /\ x # a.next.Sensor => dataMap'[x] = dataMap[x]
      ]_vars

\* An attempt for A has succeeded and none has failed since; A has no queue
\* entry, and B, registered and waiting in the queue, still has no reading.
C35_Witness ==
    /\ inFlight = {}
    /\ afterOk["A"] # <<>>
    /\ afterOk["A"][1].failures = 0
    /\ ~Queued("A")
    /\ Queued("B")
    /\ GetData(dataMap, "A").err = ""
    /\ GetData(dataMap, "B").err = "no data available"


(***************************************************************************)
(* C36: every call of a ReadFunc closure of the queuedReader eventually    *)
(* returns, with what ReadData returned to the loop or with the error      *)
(* "reader shut down", also when the context is cancelled while the call   *)
(* is under way.                                                           *)
(***************************************************************************)
\* The call of the closure of sensor c is under way.
InReadFunc(c) == reader.callers[c].pc # "idle"

C36_ReadFuncReturns ==
    \A c \in Callers :
       InReadFunc(c) ~>
          /\ ~InReadFunc(c)
          /\ reader.callers[c].ret # <<>>
          /\ reader.callers[c].ret[1] \in
                ReadResults \cup {[Data |-> "", Err |-> "reader shut down"]}

=============================================================================
